---- MODULE Spec2Model ----
(***************************************************************************)
(* A model of mxnet/gluon/data/dataloader.py: the construction of a        *)
(* DataLoader, its synchronous pass, and its parallel pass (the            *)
(* dispatcher generator DataLoader.__iter__, the worker processes running  *)
(* worker_loop, the two bounded queues and the reorder buffer).            *)
(*                                                                         *)
(* Python's None is written 0 for batch_size, "None" for the options that  *)
(* are strings here, and -1 for the ticket of a sentinel Job.              *)
(***************************************************************************)
EXTENDS Integers, Sequences, FiniteSets, TLC

\* ------------------------------------------------------------------ bounds
\* Largest num_workers tried.
MaxWorkers == 2
\* Number of passes (calls of __iter__) one loader is followed for.
MaxPasses == 2
\* Largest dataset; the datasets tried have MaxDatasetLen - 1 or MaxDatasetLen items.
MaxDatasetLen == 4
\* Largest batch_size tried.
MaxBatchSize == 2
\* Capacity of key_queue and of data_queue. The source builds both with
\* maxsize=65535 (lines 182-183); the model keeps the blocking put and scales
\* the capacity down so that a full queue is reachable.
MaxQueue == 1

Passes == 1..MaxPasses
WorkerIds == 1..MaxWorkers
DatasetLens == {MaxDatasetLen - 1, MaxDatasetLen}

\* ------------------------------------------------------------- sequences
RECURSIVE Flatten(_)
Flatten(ss) == IF ss = <<>> THEN <<>> ELSE Head(ss) \o Flatten(Tail(ss))

Reverse(s) == [k \in 1..Len(s) |-> s[Len(s) + 1 - k]]

\* ---------------------------------------------------------------- dataset
\* A sample is a scalar, an NDArray or a tuple of samples. A scalar v is
\* written [scalar |-> v] and a tuple [tuple |-> <<...>>], so that isinstance
\* is a test of the fields.
Scalar(v) == [scalar |-> v]

Tuple(fields) == [tuple |-> fields]

\* dataset[i]: the sample stored at index i (the dataset is external; its
\* samples here are scalars, distinct per index and different from the index).
Dataset(i) == Scalar(10 * (i + 1))

\* ---------------------------------------------------------------- samplers
\* SequentialSampler(n) yields 0..n-1; RandomSampler(n) a permutation of it
\* (two of them are tried); a caller's sampler is one fixed other ordering.
Natural(n) == [k \in 1..n |-> k - 1]

SamplerOrders(kind, n) ==
    CASE kind = "sequential" -> {Natural(n)}
      [] kind = "random"     -> {Natural(n), Reverse(Natural(n))}
      [] OTHER               -> {Reverse(Natural(n))}

\* BatchSampler.__iter__: the index-batches of one pass and what is left over.
\* flat is the rolled-over remainder of the previous pass followed by the
\* sampler's indices.
BatchSamplerIter(bsamp, prv, order) ==
    LET flat == prv \o order
        bs   == bsamp.batch_size
        full == Len(flat) \div bs
        rest == SubSeq(flat, full * bs + 1, Len(flat))
        whole == [k \in 1..full |-> SubSeq(flat, (k - 1) * bs + 1, k * bs)]
    IN  [started |-> TRUE,
         pos     |-> 0,
         batches |-> IF bsamp.last_batch = "keep" /\ rest # <<>>
                        THEN Append(whole, rest) ELSE whole,
         left    |-> IF bsamp.last_batch = "rollover" THEN rest ELSE <<>>]

\* BatchSampler.__len__: the number of index-batches a pass started now yields.
BatchSamplerLen(bsamp, prv, n) ==
    CASE bsamp.last_batch = "keep"    -> (n + bsamp.batch_size - 1) \div bsamp.batch_size
      [] bsamp.last_batch = "discard" -> n \div bsamp.batch_size
      [] OTHER                        -> (Len(prv) + n) \div bsamp.batch_size

NoIter == [started |-> FALSE, pos |-> 0, batches |-> <<>>, left |-> <<>>]

\* The batch sampler a caller may hand to the constructor.
UserBatchSampler == [sampler |-> "sequential", batch_size |-> MaxBatchSize, last_batch |-> "keep"]

NoBatchSampler == [sampler |-> "None", batch_size |-> 0, last_batch |-> "None"]

\* --------------------------------------------------------------- batchify
\* An NDArray: the context it lives in, its shape and its elements, and, for
\* an array in shared memory, the region that holds them (0: no shared region).
NDArray(ctx, shape, data) == [ctx |-> ctx, shape |-> shape, data |-> data, region |-> 0]

NoBatch == NDArray("none", <<>>, <<>>)

\* isinstance(x, nd.NDArray) and isinstance(x, tuple).
IsNDArray(x) == "ctx" \in DOMAIN x

IsTuple(x) == "tuple" \in DOMAIN x

\* nd.stack(*data) in context ctx: the arrays, all of one shape, laid one
\* after the other along a new first axis (elements in row-major order).
stack(data, ctx) ==
    NDArray(ctx, <<Len(data)>> \o data[1].shape,
            Flatten([k \in 1..Len(data) |-> data[k].data]))

\* np.asarray(data) for a list of scalars, then nd.array(...) in context ctx.
array(data, ctx) == NDArray(ctx, <<Len(data)>>, [k \in 1..Len(data) |-> data[k].scalar])

\* A transposition that looks at the first sample only.
zip_of_first_sample(data) ==
    [j \in 1..Len(data[1].tuple) |-> <<data[1].tuple[j]>>]

\* Lines 85 and 99, zip(*data): the j-th item is the list of the j-th fields
\* of the samples, in sample order.
zip(data) ==
    [j \in 1..Len(data[1].tuple) |-> [k \in 1..Len(data) |-> data[k].tuple[j]]]

\* The list a collate returns for tuple samples.
List(items) == [list |-> items]

\* default_batchify_fn (lines 80-89).
RECURSIVE default_batchify_fn(_)
default_batchify_fn(data) ==
    IF IsNDArray(data[1]) THEN stack(data, "cpu")
    ELSE IF IsTuple(data[1])
         THEN LET fields == zip(data)
              IN  List([j \in 1..Len(fields) |-> default_batchify_fn(fields[j])])
         ELSE array(data, "cpu")

\* A collate that allocates the shared array and returns it unfilled.
mp_batchify_unfilled(data) ==
    NDArray("cpu_shared", <<Len(data)>>, [k \in 1..Len(data) |-> 0])

\* default_mp_batchify_fn (lines 92-104): the same, with every array
\* allocated in shared memory.
RECURSIVE default_mp_batchify_fn(_)
default_mp_batchify_fn(data) ==
    IF IsNDArray(data[1]) THEN stack(data, "cpu_shared")
    ELSE IF IsTuple(data[1])
         THEN LET fields == zip(data)
              IN  List([j \in 1..Len(fields) |-> default_mp_batchify_fn(fields[j])])
         ELSE array(data, "cpu_shared")

batchify(fn, data) ==
    IF fn = "default_mp_batchify_fn" THEN default_mp_batchify_fn(data)
                                     ELSE default_batchify_fn(data)

\* --------------------------------------------------------- shared memory
\* The shared memory of a pass: the regions allocated so far, each with the
\* elements written to it. Regions are named by positive numbers. A new
\* region is one no earlier allocation returned; which unused name it gets is
\* immaterial to the program, and the allocator here takes the name asked
\* for when it is unused (the workers ask for the number of the Job they
\* collate, so that names do not depend on the order of the allocations) and
\* the least unused name otherwise.
NoRegions == [r \in {} |-> <<>>]

NewRegion(mem, name) ==
    IF name \notin DOMAIN mem THEN name
    ELSE CHOOSE r \in 1..(Cardinality(DOMAIN mem) + 1) : r \notin DOMAIN mem

\* A collate that keeps one output array and stacks every batch into it.
PreallocatedOut(mem, name) == 1

\* Lines 95-96 and 103-104: every call of default_mp_batchify_fn allocates the
\* array it returns (nd.empty, nd.array) in the context cpu_shared.
cpu_shared(mem, name) == NewRegion(mem, name)

\* The memory after data was written to region r (nd.stack(..., out=out),
\* nd.array(data, ...)).
Stored(mem, r, data) ==
    [x \in DOMAIN mem \cup {r} |-> IF x = r THEN data ELSE mem[x]]

\* [dataset[i] for i in samples]
Fetch(samples) == [k \in 1..Len(samples) |-> Dataset(samples[k])]

\* -------------------------------------------------------------- transport
\* reduce_ndarray: what is pickled for an NDArray is the rebuild function and
\* the shared-memory handle of the array.
reduce_ndarray(data) ==
    [fn |-> "rebuild_ndarray", shape |-> data.shape, segment |-> data.data,
     region |-> data.region]

\* rebuild_ndarray: an NDArray over the segment the handle names.
rebuild_ndarray(h) ==
    [NDArray("cpu_shared", h.shape, h.segment) EXCEPT !.region = h.region]

\* The values of a batch, whatever memory holds them.
Values(b) == [shape |-> b.shape, data |-> b.data]

\* ------------------------------------------------------------ construction
\* The arguments a caller may pass to DataLoader(...).
Args ==
    [dataset_len   : DatasetLens,
     batch_size    : 0..MaxBatchSize,
     shuffle       : BOOLEAN,
     sampler       : {"None", "custom"},
     last_batch    : {"None", "keep", "discard", "rollover"},
     batch_sampler : {"None", "user"},
     num_workers   : 0..MaxWorkers]

NoSelf == [_batch_sampler |-> NoBatchSampler, _num_workers |-> 0, _batchify_fn |-> "None"]

\* A constructor that forgets last_batch in the test of line 161-162.
ConflictsIgnoringLastBatch(a) ==
    a.batch_size # 0 \/ a.shuffle \/ a.sampler # "None"

\* Line 161-162: the options that exclude batch_sampler.
ConflictsWithBatchSampler(a) ==
    a.batch_size # 0 \/ a.shuffle \/ a.sampler # "None" \/ a.last_batch # "None"

\* DataLoader.__init__: either a ValueError or the loader's fields.
DataLoaderInit(a) ==
    LET fn == IF a.num_workers > 0 THEN "default_mp_batchify_fn"
                                   ELSE "default_batchify_fn"
        made(bsamp) == [ok |-> TRUE, error |-> "None",
                        self |-> [_batch_sampler |-> bsamp,
                                  _num_workers   |-> a.num_workers,
                                  _batchify_fn   |-> fn]]
        raise(msg) == [ok |-> FALSE, error |-> msg, self |-> NoSelf]
    IN  IF a.batch_sampler = "None"
        THEN IF a.batch_size = 0
             THEN raise("batch_size must be specified unless batch_sampler is specified")
             ELSE IF a.sampler = "None"
                  THEN made([sampler    |-> IF a.shuffle THEN "random" ELSE "sequential",
                             batch_size |-> a.batch_size,
                             last_batch |-> IF a.last_batch # "None"
                                               THEN a.last_batch ELSE "keep"])
                  ELSE IF a.shuffle
                       THEN raise("shuffle must not be specified if sampler is specified")
                       ELSE made([sampler    |-> "custom",
                                  batch_size |-> a.batch_size,
                                  last_batch |-> IF a.last_batch # "None"
                                                    THEN a.last_batch ELSE "keep"])
        ELSE IF ConflictsWithBatchSampler(a)
             THEN raise("batch_size, shuffle, sampler and last_batch must not be specified if batch_sampler is specified.")
             ELSE made(UserBatchSampler)


\* ------------------------------------------------------------------ state
VARIABLES
    args,        \* the arguments of the DataLoader(...) call
    loader,      \* "new" before __init__ ran, then "ready" or "error"
    error,       \* the message of the ValueError __init__ raised, or "None"
    self,        \* the loader's fields: _batch_sampler, _num_workers, _batchify_fn
    prev,        \* the batch sampler's _prev: indices rolled over to the next pass
    npass,       \* the number of passes started so far
    pc,          \* per pass: where the generator __iter__ stands
    abandoned,   \* per pass: the consumer dropped the suspended generator
    it,          \* per pass: the iterator over self._batch_sampler
    key_queue,   \* per queue: the Jobs put and not yet got
    data_queue,  \* per queue: the Results put and not yet got
    workers,     \* per pass and worker: the state of the process running worker_loop
    data_buffer, \* per pass: the reorder buffer, ticket -> batch
    curr_idx,    \* per pass: the next ticket to yield
    total,       \* per pass: len(self._batch_sampler) as read at line 200
    loop,        \* per pass: the counter of the for loop the generator is in
    out,         \* per pass: the batches handed to the consumer, in order
    length,      \* per pass: len(loader) when the consumer started the pass
    tickets,     \* per pass: the tickets popped at line 204, in order
    shm,         \* per pass: the shared-memory regions its workers allocated, region -> elements
    given,       \* the list of samples a collate function is called with on its own
    collated,    \* what default_batchify_fn returned for it, or NoBatch
    collated_mp  \* what default_mp_batchify_fn returned for it, or NoBatch

vars == <<args, loader, error, self, prev, npass, pc, abandoned, it, key_queue,
          data_queue, workers, data_buffer, curr_idx, total, loop, out, length, tickets,
          shm, given, collated, collated_mp>>

config == <<args, loader, error, self>>

collate == <<given, collated, collated_mp>>

\* The ticket of a sentinel Job (None in the source).
Sentinel(p) == [idx |-> -1, samples |-> <<>>, origin |-> p]

NoWorker == [pc |-> "none", idx |-> -1, samples |-> <<>>, origin |-> 0]

EmptyBuffer == [t \in {} |-> [batch |-> NoBatch, origin |-> 0]]

\* One pair of queues built once and used by every pass.
SharedQueue(p) == 1

\* Lines 182-183: every call of __iter__ builds its own two queues. The queues
\* are numbered by the pass that built them.
QueueOf(p) == p

\* Line 186: one process per worker.
WorkersOf(n) == 1..n

\* A loop over range(num_workers - 1).
OneSentinelShort(n) == n - 1

\* Line 207: one sentinel per worker.
SentinelCount(n) == n

\* A dispatcher that yields whatever has arrived, without waiting for curr_idx.
NextArrived(buf, curr) == DOMAIN buf

\* Line 203: the tickets the while loop may yield now.
NextReady(buf, curr) == IF curr \in DOMAIN buf THEN {curr} ELSE {}

\* A dispatcher that reads data_buffer[curr_idx] and leaves the entry there.
ReadWithoutPop(buf, t) == buf

\* Line 204: data_buffer.pop(curr_idx) takes the entry out of the buffer.
Pop(buf, t) == [k \in DOMAIN buf \ {t} |-> buf[k]]

\* A worker without the while loop: it returns after its first put.
ReturnAfterPut == "exited"

\* Line 113 and back to line 108: after its put a worker waits for a Job again.
AfterPut == "get"

\* Line 110: a Job whose ticket is None ends the worker.
AfterGet(job) == IF job.idx = -1 THEN "exited" ELSE "work"

Alive(wk) == wk.pc \in {"get", "work"}

\* An __iter__ without the branch of lines 177-180.
AlwaysThroughQueues(n) == FALSE

\* Line 177: with num_workers == 0 the pass is synchronous.
IsSynchronous(n) == n = 0

\* No loader is built and no pass has started.
NothingBuilt ==
    /\ loader = "new"
    /\ error = "None"
    /\ self = NoSelf
    /\ prev = <<>>
    /\ npass = 0
    /\ pc = [p \in Passes |-> "none"]
    /\ abandoned = [p \in Passes |-> FALSE]
    /\ it = [p \in Passes |-> NoIter]
    /\ key_queue = [q \in Passes |-> <<>>]
    /\ data_queue = [q \in Passes |-> <<>>]
    /\ workers = [p \in Passes |-> [w \in WorkerIds |-> NoWorker]]
    /\ data_buffer = [p \in Passes |-> EmptyBuffer]
    /\ curr_idx = [p \in Passes |-> 0]
    /\ total = [p \in Passes |-> 0]
    /\ loop = [p \in Passes |-> 0]
    /\ out = [p \in Passes |-> <<>>]
    /\ length = [p \in Passes |-> 0]
    /\ tickets = [p \in Passes |-> <<>>]
    /\ shm = [p \in Passes |-> NoRegions]

Init ==
    /\ args \in Args
    /\ NothingBuilt
    /\ given = <<>>
    /\ collated = NoBatch
    /\ collated_mp = NoBatch

\* ------------------------------------------------------------ DataLoader()
\* DataLoader.__init__ (lines 142-174).
Construct ==
    /\ loader = "new"
    /\ LET r == DataLoaderInit(args)
       IN  /\ loader' = IF r.ok THEN "ready" ELSE "error"
           /\ error' = r.error
           /\ self' = r.self
    /\ UNCHANGED <<args, prev, npass, pc, abandoned, it, key_queue, data_queue,
                   workers, data_buffer, curr_idx, total, loop, out, tickets, length, shm,
                   collate>>

\* ------------------------------------------------------- the batch sampler
\* One next() on the iterator over self._batch_sampler. The generator starts
\* at its first next(): it takes _prev and empties it; when it is exhausted
\* it stores the remainder in _prev (rollover only).
SamplerNext(iter, prv, order) ==
    LET begun == IF iter.started THEN iter
                 ELSE BatchSamplerIter(self._batch_sampler, prv, order)
        prv1  == IF iter.started THEN prv ELSE <<>>
    IN  IF begun.pos < Len(begun.batches)
        THEN [has |-> TRUE, batch |-> begun.batches[begun.pos + 1],
              iter |-> [begun EXCEPT !.pos = @ + 1], prev |-> prv1]
        ELSE [has |-> FALSE, batch |-> <<>>, iter |-> begun,
              prev |-> IF begun.left # <<>> THEN begun.left ELSE prv1]

\* len(self._batch_sampler) when the sampler's _prev is prv.
SamplerLen(prv) == BatchSamplerLen(self._batch_sampler, prv, args.dataset_len)

\* DataLoader.__len__ (lines 213-214).
DataLoaderLen == SamplerLen(prev)

Orders == SamplerOrders(self._batch_sampler.sampler, args.dataset_len)

\* ------------------------------------------------------------ the consumer
\* iter(loader) and the first lines of __iter__ (lines 176-192): in parallel
\* mode the queues are built and the workers started. The consumer follows
\* one generator at a time: it starts a pass when the pass before has ended
\* or was abandoned.
IterStart ==
    /\ loader = "ready"
    /\ npass < MaxPasses
    /\ \A q \in 1..npass : pc[q] \in {"done", "raised"} \/ abandoned[q]
    /\ LET p == npass + 1
           n == self._num_workers
       IN  /\ npass' = p
           /\ length' = [length EXCEPT ![p] = DataLoaderLen]
           /\ IF IsSynchronous(n)
              THEN /\ pc' = [pc EXCEPT ![p] = "sync"]
                   /\ UNCHANGED workers
              ELSE /\ pc' = [pc EXCEPT ![p] = "enqueue"]
                   /\ workers' = [workers EXCEPT ![p] =
                         [w \in WorkerIds |->
                            IF w \in WorkersOf(n)
                            THEN [NoWorker EXCEPT !.pc = "get"] ELSE NoWorker]]
    /\ UNCHANGED <<config, collate, shm, prev, abandoned, it, key_queue, data_queue, data_buffer,
                   curr_idx, total, loop, out, tickets>>

\* Synchronous mode (lines 178-180): the consumer asks for the next batch; the
\* generator takes the next index-batch, fetches, collates and yields, or returns.
SyncNext(p) ==
    /\ pc[p] = "sync"
    /\ ~abandoned[p]
    /\ \E order \in Orders :
         LET s == SamplerNext(it[p], prev, order)
         IN  /\ it' = [it EXCEPT ![p] = s.iter]
             /\ prev' = s.prev
             /\ IF s.has
                THEN /\ out' = [out EXCEPT ![p] =
                            Append(@, batchify(self._batchify_fn, Fetch(s.batch)))]
                     /\ pc' = pc
                ELSE /\ out' = out
                     /\ pc' = [pc EXCEPT ![p] = "done"]
    /\ UNCHANGED <<config, collate, shm, npass, abandoned, key_queue, data_queue, workers,
                   data_buffer, curr_idx, total, loop, tickets, length>>

\* Synchronous mode, line 179 raises: the exception reaches the consumer and
\* the generator is finished; the batch sampler's generator is left where it was.
SyncFail(p) ==
    /\ pc[p] = "sync"
    /\ ~abandoned[p]
    /\ \E order \in Orders :
         LET s == SamplerNext(it[p], prev, order)
         IN  /\ s.has
             /\ it' = [it EXCEPT ![p] = s.iter]
             /\ prev' = s.prev
    /\ pc' = [pc EXCEPT ![p] = "raised"]
    /\ UNCHANGED <<config, collate, shm, npass, abandoned, key_queue, data_queue, workers,
                   data_buffer, curr_idx, total, loop, out, tickets, length>>

\* The consumer stops asking: the generator stays suspended at its yield.
Abandon(p) ==
    /\ pc[p] \in {"sync", "yielded"}
    /\ ~abandoned[p]
    /\ Len(out[p]) > 0
    /\ abandoned' = [abandoned EXCEPT ![p] = TRUE]
    /\ UNCHANGED <<config, collate, shm, prev, npass, pc, it, key_queue, data_queue, workers,
                   data_buffer, curr_idx, total, loop, out, tickets, length>>

\* ---------------------------------------------------------- the dispatcher
\* Where the generator goes once the drain loop has counted to c.
AfterResult(c, tot) ==
    IF c < tot THEN "drain"
    ELSE IF SentinelCount(self._num_workers) > 0 THEN "sentinel" ELSE "join"

\* Lines 194-200: one Job per index-batch, its ticket the batch's position;
\* when the sampler is exhausted, the length of the batch sampler is read.
Enqueue(p) ==
    /\ pc[p] = "enqueue"
    /\ \E order \in Orders :
         LET s == SamplerNext(it[p], prev, order)
             q == QueueOf(p)
         IN  /\ it' = [it EXCEPT ![p] = s.iter]
             /\ prev' = s.prev
             /\ IF s.has
                THEN /\ Len(key_queue[q]) < MaxQueue
                     /\ key_queue' = [key_queue EXCEPT ![q] =
                           Append(@, [idx |-> it[p].pos, samples |-> s.batch, origin |-> p])]
                     /\ UNCHANGED <<pc, total>>
                ELSE /\ key_queue' = key_queue
                     /\ total' = [total EXCEPT ![p] = SamplerLen(s.prev)]
                     /\ pc' = [pc EXCEPT ![p] = AfterResult(0, SamplerLen(s.prev))]
    /\ UNCHANGED <<config, collate, shm, npass, abandoned, data_queue, workers, data_buffer,
                   curr_idx, loop, out, tickets, length>>

\* Lines 203-205 from the test of the while loop on: either the next ticket
\* is in the buffer and its batch is popped and yielded, or the loop ends
\* and the for loop counts one more Result.
WhileLoop(p, buf, curr) ==
    /\ curr_idx' = [curr_idx EXCEPT ![p] = curr]
    /\ IF NextReady(buf, curr) # {}
       THEN \E t \in NextReady(buf, curr) :
              /\ out' = [out EXCEPT ![p] = Append(@, buf[t].batch)]
              /\ tickets' = [tickets EXCEPT ![p] = Append(@, t)]
              /\ data_buffer' = [data_buffer EXCEPT ![p] = Pop(buf, t)]
              /\ pc' = [pc EXCEPT ![p] = "yielded"]
              /\ loop' = loop
       ELSE /\ data_buffer' = [data_buffer EXCEPT ![p] = buf]
            /\ loop' = [loop EXCEPT ![p] =
                          IF loop[p] + 1 < total[p] THEN loop[p] + 1 ELSE 0]
            /\ pc' = [pc EXCEPT ![p] = AfterResult(loop[p] + 1, total[p])]
            /\ UNCHANGED <<out, tickets, length>>

\* Lines 201-204: a Result is taken from data_queue and stored under its ticket.
Drain(p) ==
    /\ pc[p] = "drain"
    /\ data_queue[QueueOf(p)] # <<>>
    /\ LET res == Head(data_queue[QueueOf(p)])
           buf == data_buffer[p]
           got == [batch |-> rebuild_ndarray(res.batch), origin |-> res.origin]
       IN  WhileLoop(p, [k \in DOMAIN buf \cup {res.idx} |->
                            IF k = res.idx THEN got ELSE buf[k]], curr_idx[p])
    /\ data_queue' = [data_queue EXCEPT ![QueueOf(p)] = Tail(@)]
    /\ UNCHANGED <<config, collate, shm, prev, npass, abandoned, it, key_queue, workers, total, length>>

\* The consumer asks for the next batch of a parallel pass: the generator
\* resumes after its yield (line 205) and tests the while loop again.
Resume(p) ==
    /\ pc[p] = "yielded"
    /\ ~abandoned[p]
    /\ WhileLoop(p, data_buffer[p], curr_idx[p] + 1)
    /\ UNCHANGED <<config, collate, shm, prev, npass, abandoned, it, key_queue, data_queue,
                   workers, total, length>>

\* Lines 207-208: the sentinel Jobs.
PutSentinel(p) ==
    /\ pc[p] = "sentinel"
    /\ Len(key_queue[QueueOf(p)]) < MaxQueue
    /\ key_queue' = [key_queue EXCEPT ![QueueOf(p)] = Append(@, Sentinel(p))]
    /\ IF loop[p] + 1 < SentinelCount(self._num_workers)
       THEN /\ loop' = [loop EXCEPT ![p] = @ + 1]
            /\ pc' = pc
       ELSE /\ loop' = [loop EXCEPT ![p] = 0]
            /\ pc' = [pc EXCEPT ![p] = "join"]
    /\ UNCHANGED <<config, collate, shm, prev, npass, abandoned, it, data_queue, workers,
                   data_buffer, curr_idx, total, out, tickets, length>>

\* Lines 210-211: join returns once the worker's process has ended.
Join(p) ==
    /\ pc[p] = "join"
    /\ ~Alive(workers[p][loop[p] + 1])
    /\ IF loop[p] + 1 < self._num_workers
       THEN /\ loop' = [loop EXCEPT ![p] = @ + 1]
            /\ pc' = pc
       ELSE /\ loop' = [loop EXCEPT ![p] = 0]
            /\ pc' = [pc EXCEPT ![p] = "done"]
    /\ UNCHANGED <<config, collate, shm, prev, npass, abandoned, it, key_queue, data_queue,
                   workers, data_buffer, curr_idx, total, out, tickets, length>>

\* ------------------------------------------------------------- worker_loop
\* Lines 109-111: key_queue.get(), and the test for the sentinel. A worker
\* that holds a Job is at line 112 or waiting in the put of line 113: what it
\* computes at line 112 touches nothing the other processes see.
WorkerGet(p, w) ==
    /\ workers[p][w].pc = "get"
    /\ key_queue[QueueOf(p)] # <<>>
    /\ LET job == Head(key_queue[QueueOf(p)])
       IN  workers' = [workers EXCEPT ![p][w] =
              [pc |-> AfterGet(job), idx |-> job.idx, samples |-> job.samples,
               origin |-> job.origin]]
    /\ key_queue' = [key_queue EXCEPT ![QueueOf(p)] = Tail(@)]
    /\ UNCHANGED <<config, collate, shm, prev, npass, pc, abandoned, it, data_queue, data_buffer,
                   curr_idx, total, loop, out, tickets, length>>

\* Line 112 raises: nothing catches it, the process ends.
WorkerFail(p, w) ==
    /\ workers[p][w].pc = "work"
    /\ workers' = [workers EXCEPT ![p][w].pc = "crashed"]
    /\ UNCHANGED <<config, collate, shm, prev, npass, pc, abandoned, it, key_queue, data_queue,
                   data_buffer, curr_idx, total, loop, out, tickets, length>>

\* Lines 112-113: the samples are fetched and collated into a region of
\* shared memory, and data_queue.put((idx, batch)) sends the batch as its handle.
WorkerPut(p, w) ==
    /\ workers[p][w].pc = "work"
    /\ Len(data_queue[QueueOf(p)]) < MaxQueue
    /\ LET region == cpu_shared(shm[p], workers[p][w].idx + 1)
           batch  == [batchify(self._batchify_fn, Fetch(workers[p][w].samples))
                         EXCEPT !.region = region]
       IN  /\ shm' = [shm EXCEPT ![p] = Stored(@, region, batch.data)]
           /\ data_queue' = [data_queue EXCEPT ![QueueOf(p)] =
                 Append(@, [idx    |-> workers[p][w].idx,
                            batch  |-> reduce_ndarray(batch),
                            origin |-> workers[p][w].origin])]
    /\ workers' = [workers EXCEPT ![p][w] = [NoWorker EXCEPT !.pc = AfterPut]]
    /\ UNCHANGED <<config, collate, prev, npass, pc, abandoned, it, key_queue, data_buffer,
                   curr_idx, total, loop, out, tickets, length>>

\* --------------------------------------------------------- specifications
Dispatcher(p) == Enqueue(p) \/ Drain(p) \/ PutSentinel(p) \/ Join(p)

Worker(p, w) == WorkerGet(p, w) \/ WorkerPut(p, w)

Next ==
    \/ Construct
    \/ IterStart
    \/ \E p \in Passes : SyncNext(p)
    \/ \E p \in Passes : SyncFail(p)
    \/ \E p \in Passes : Resume(p)
    \/ \E p \in Passes : Abandon(p)
    \/ \E p \in Passes : Enqueue(p)
    \/ \E p \in Passes : Drain(p)
    \/ \E p \in Passes : PutSentinel(p)
    \/ \E p \in Passes : Join(p)
    \/ \E p \in Passes, w \in WorkerIds : WorkerGet(p, w)
    \/ \E p \in Passes, w \in WorkerIds : WorkerFail(p, w)
    \/ \E p \in Passes, w \in WorkerIds : WorkerPut(p, w)

Spec == Init /\ [][Next]_vars


\* The next-state relation of a pass nobody disturbs: no fetch or collate
\* raises and the consumer asks for batches until the pass ends.
FairNext ==
    \/ Construct
    \/ IterStart
    \/ \E p \in Passes : SyncNext(p)
    \/ \E p \in Passes : Resume(p)
    \/ \E p \in Passes : Enqueue(p)
    \/ \E p \in Passes : Drain(p)
    \/ \E p \in Passes : PutSentinel(p)
    \/ \E p \in Passes : Join(p)
    \/ \E p \in Passes, w \in WorkerIds : WorkerGet(p, w)
    \/ \E p \in Passes, w \in WorkerIds : WorkerPut(p, w)

\* The operating system schedules every process that can run, and the
\* consumer keeps calling next().
Fairness ==
    /\ \A p \in Passes : WF_vars(SyncNext(p)) /\ WF_vars(Resume(p))
    /\ \A p \in Passes : WF_vars(Dispatcher(p))
    /\ \A p \in Passes, w \in WorkerIds : WF_vars(Worker(p, w))

FairSpec == Init /\ [][FairNext]_vars /\ Fairness

\* ------------------------------------------------- the collate functions
\* The elements of the tensors and the scalars the collate is tried on.
Elements == {1, 2}

\* The samples tried: scalars, tensors of shape (2,) and (1, 2), tuples of a
\* tensor and a scalar, and tuples that hold a tuple.
ScalarSamples == {Scalar(v) : v \in Elements}

TensorSamples(shape) == {NDArray("cpu", shape, <<a, b>>) : a \in Elements, b \in Elements}

PairSamples == {Tuple(<<t, v>>) : t \in TensorSamples(<<2>>), v \in ScalarSamples}

NestedSamples == {Tuple(<<v, Tuple(<<t, v2>>)>>) :
                     v \in ScalarSamples, t \in TensorSamples(<<2>>), v2 \in {Scalar(1)}}

\* The non-empty lists of at most MaxBatchSize samples of one kind.
ListsOf(kind) == UNION {[1..m -> kind] : m \in 1..MaxBatchSize}

SampleLists ==
    ListsOf(ScalarSamples) \cup ListsOf(TensorSamples(<<2>>))
       \cup ListsOf(TensorSamples(<<1, 2>>)) \cup ListsOf(PairSamples)
       \cup ListsOf(NestedSamples)

BatchifyInit ==
    /\ args = [dataset_len |-> MaxDatasetLen, batch_size |-> MaxBatchSize,
               shuffle |-> FALSE, sampler |-> "None", last_batch |-> "None",
               batch_sampler |-> "None", num_workers |-> 0]
    /\ NothingBuilt
    /\ given \in SampleLists
    /\ collated = NoBatch
    /\ collated_mp = NoBatch

\* default_batchify_fn(data), called on the list of samples.
Collate ==
    /\ collated = NoBatch
    /\ collated' = default_batchify_fn(given)
    /\ UNCHANGED <<config, shm, given, collated_mp, prev, npass, pc, abandoned, it,
                   key_queue, data_queue, workers, data_buffer, curr_idx, total, loop,
                   out, tickets, length>>

\* default_mp_batchify_fn(data), called on the list of samples.
CollateShared ==
    /\ collated_mp = NoBatch
    /\ collated_mp' = default_mp_batchify_fn(given)
    /\ UNCHANGED <<config, shm, given, collated, prev, npass, pc, abandoned, it,
                   key_queue, data_queue, workers, data_buffer, curr_idx, total, loop,
                   out, tickets, length>>

BatchifyNext == Collate \/ CollateShared

BatchifySpec == BatchifyInit /\ [][BatchifyNext]_vars

\* The consumer and the generator of synchronous mode (lines 176-180), on
\* every loader; a pass of a loader with workers is left where it starts.
SyncModeNext ==
    \/ Construct
    \/ IterStart
    \/ \E p \in Passes : SyncNext(p)
    \/ \E p \in Passes : SyncFail(p)
    \/ \E p \in Passes : Abandon(p)

SyncSpec == Init /\ [][SyncModeNext]_vars

\* The constructor alone, and the first step of a pass on what it built.
ConstructNext == Construct \/ IterStart

ConstructSpec == Init /\ [][ConstructNext]_vars

\* ------------------------------------------------------------------ claims
Parallel(p) == pc[p] \notin {"none", "sync"} /\ self._num_workers > 0

\* The samples of an index-batch, read from the dataset.
SamplesOf(b) == [j \in 1..Len(b) |-> Dataset(b[j]).scalar]

\* C1: in a parallel pass the batches handed to the consumer carry the
\* tickets 0, 1, 2, ... in this order, and the k-th batch handed over holds
\* the samples of the k-th index-batch of the batch sampler.
C1_YieldedInSamplerOrder ==
    \A p \in Passes :
        Parallel(p) =>
            /\ Len(out[p]) = Len(tickets[p])
            /\ \A k \in 1..Len(out[p]) :
                  /\ tickets[p][k] = k - 1
                  /\ k <= Len(it[p].batches)
                  /\ out[p][k].data = SamplesOf(it[p].batches[k])

\* A batch is handed over while a later ticket, which arrived before it,
\* waits in the reorder buffer.
C1_Witness ==
    \E p \in Passes :
        /\ pc[p] = "yielded"
        /\ self._num_workers > 1
        /\ \E t \in DOMAIN data_buffer[p] : t > curr_idx[p]

Crashed(p) == \E w \in WorkerIds : workers[p][w].pc = "crashed"

\* The tickets 0 .. n-1 in order.
TicketsUpTo(n) == [k \in 1..n |-> k - 1]

\* C2: a pass that has completed without a worker failure has handed over
\* exactly len(loader) batches, as many as the batch sampler produced
\* index-batches; in parallel mode their tickets are 0 .. len-1, once each.
C2_CompletePassYieldsLenBatches ==
    \A p \in Passes :
        pc[p] = "done" /\ ~Crashed(p) =>
            /\ Len(out[p]) = length[p]
            /\ length[p] = Len(it[p].batches)
            /\ Parallel(p) => tickets[p] = TicketsUpTo(length[p])

\* C3: with no worker failure, a consumer that keeps asking and fair
\* scheduling, every parallel pass that starts completes, however many
\* index-batches the sampler produces. Stated for the policies keep and
\* discard, under which the batch sampler's length does not move (C5 is about
\* rollover).
C3_EveryPassCompletes ==
    \A p \in Passes :
        (pc[p] = "enqueue" /\ self._batch_sampler.last_batch # "rollover")
            ~> (pc[p] = "done")


SentinelsIn(q) == Cardinality({k \in 1..Len(q) : q[k].idx = -1})

Exited(p) == {w \in WorkerIds : workers[p][w].pc = "exited"}

C5_WaitsForAsManyResultsAsJobs ==
    \A p \in Passes :
        Parallel(p) /\ pc[p] # "enqueue" =>
            /\ total[p] = it[p].pos
            /\ pc[p] = "done" /\ ~Crashed(p) => Len(out[p]) = length[p]


\* The batch synchronous mode yields for an index-batch (line 179 with the
\* collate function of line 172).
SyncBatch(b) == batchify("default_batchify_fn", Fetch(b))

\* The samples of the dataset in its natural order.
NaturalSamples == [k \in 1..args.dataset_len |-> Dataset(k - 1).scalar]

\* The samples of the batches handed over in pass p, batch after batch.
Concatenated(p) == Flatten([k \in 1..Len(out[p]) |-> out[p][k].data])

PositionwiseAsSync ==
    \A p \in Passes :
        pc[p] # "none" =>
            \A k \in 1..Len(out[p]) :
                /\ k <= Len(it[p].batches)
                /\ Values(out[p][k]) = Values(SyncBatch(it[p].batches[k]))

C7_FailureBlocksThePass ==
    \A p \in Passes : \A w \in WorkerIds :
        workers[p][w].pc = "crashed" =>
            LET t == workers[p][w].idx
                q == QueueOf(p)
            IN  /\ \A k \in 1..Len(data_queue[q]) : data_queue[q][k].idx # t
                /\ t \notin DOMAIN data_buffer[p]
                /\ \A k \in 1..Len(key_queue[q]) : key_queue[q][k].idx # t
                /\ \A v \in WorkerIds \ {w} : workers[p][v].idx # t
                /\ \A k \in 1..Len(tickets[p]) : tickets[p][k] < t
                /\ pc[p] \in {"enqueue", "drain", "yielded"}
                /\ SentinelsIn(key_queue[q]) = 0

IsPrefix(a, b) == Len(a) <= Len(b) /\ SubSeq(b, 1, Len(a)) = a

\* What C8 says of every step taken after pass p was abandoned, but for the
\* fate of the workers.
AbandonedStaysAsLeft(p) ==
    /\ SentinelsIn(key_queue'[QueueOf(p)]) = 0
    /\ pc'[p] = pc[p]
    /\ data_buffer'[p] = data_buffer[p]
    /\ IsPrefix(data_queue[QueueOf(p)], data_queue'[QueueOf(p)])

\* C8 as the spec states it: once the consumer has abandoned a parallel pass,
\* no sentinel is enqueued, no worker of the pass ever terminates, and the
\* Results in the result queue and in the reorder buffer stay where they are.
C8_NoWorkerEverTerminates ==
    [][\A p \in Passes :
          abandoned[p] /\ Parallel(p) =>
             /\ AbandonedStaysAsLeft(p)
             /\ \A w \in WorkersOf(self._num_workers) :
                   Alive(workers[p][w]) => Alive(workers'[p][w])]_vars

\* C8, amended: once the consumer has abandoned a parallel pass, no sentinel
\* is enqueued, no worker of the pass ever leaves its loop through a sentinel
\* (a worker that is alive stays alive unless a fetch or collate failure ends
\* it), and the Results in the result queue and in the reorder buffer stay
\* where they are.
C8_AbandonedPassIsNeverCleanedUp ==
    [][\A p \in Passes :
          abandoned[p] /\ Parallel(p) =>
             /\ AbandonedStaysAsLeft(p)
             /\ \A w \in WorkersOf(self._num_workers) :
                   /\ workers'[p][w].pc # "exited"
                   /\ Alive(workers[p][w]) =>
                         \/ Alive(workers'[p][w])
                         \/ workers[p][w].pc = "work" /\ workers'[p][w].pc = "crashed"]_vars

\* The next pass is complete, and the abandoned pass still has a live worker
\* and a Result nobody took.
C8_Witness ==
    /\ abandoned[1] /\ Parallel(1)
    /\ npass = 2 /\ pc[2] = "done"
    /\ data_queue[QueueOf(1)] # <<>>
    /\ \E w \in WorkerIds : Alive(workers[1][w])

\* C9: every parallel pass has its own queues and its own workers, and
\* numbers its tickets from 0: whatever a worker or the dispatcher of a pass
\* holds or has received was made in that pass, and so is whatever waits in
\* the queues of the pass, also while an abandoned pass still has workers and
\* Results with the same tickets.
C9_PassesShareNothing ==
    \A p \in Passes :
        Parallel(p) =>
            LET q == QueueOf(p)
            IN  /\ \A p2 \in Passes \ {p} : Parallel(p2) => QueueOf(p2) # q
                /\ {w \in WorkerIds : workers[p][w].pc # "none"} = WorkersOf(self._num_workers)
                /\ \A w \in WorkerIds : workers[p][w].origin \in {0, p}
                /\ \A t \in DOMAIN data_buffer[p] : data_buffer[p][t].origin = p
                /\ \A k \in 1..Len(key_queue[q]) : key_queue[q][k].origin = p
                /\ \A k \in 1..Len(data_queue[q]) : data_queue[q][k].origin = p
                /\ \A k \in 1..Len(key_queue[q]) :
                      key_queue[q][k].idx \in -1..(Len(it[p].batches) - 1)
                /\ Len(tickets[p]) > 0 => tickets[p][1] = 0

\* An abandoned pass and the pass after it both hold a Result of the same ticket.
C9_Witness ==
    /\ abandoned[1] /\ Parallel(1) /\ Parallel(2)
    /\ \E k1 \in 1..Len(data_queue[QueueOf(1)]) :
        \E k2 \in 1..Len(data_queue[QueueOf(2)]) :
            /\ data_queue[QueueOf(1)][k1].idx = data_queue[QueueOf(2)][k2].idx
            /\ data_queue[QueueOf(1)][k1].origin = 1
            /\ data_queue[QueueOf(2)][k2].origin = 2

\* The cases in which C10 says the constructor fails.
C10_Conflict(a) ==
    \/ a.batch_sampler = "None" /\ a.batch_size = 0
    \/ a.batch_sampler = "None" /\ a.sampler # "None" /\ a.shuffle
    \/ /\ a.batch_sampler # "None"
       /\ (a.batch_size # 0 \/ a.shuffle \/ a.sampler # "None" \/ a.last_batch # "None")

\* C10: DataLoader(...) raises exactly in the three cases of conflicting
\* options, gives no loader then, and no pass is ever started on it; every
\* other combination of the options gives a loader.
C10_ConstructionFailsExactlyOnConflict ==
    /\ loader # "new" => (loader = "error" <=> C10_Conflict(args))
    /\ loader = "error" => error # "None" /\ self = NoSelf /\ npass = 0
    /\ loader = "ready" => error = "None" /\ self # NoSelf

\* A batch_sampler given together with last_batch alone is refused.
C10_Witness ==
    /\ loader = "error"
    /\ args.batch_sampler = "user"
    /\ args.last_batch = "rollover"
    /\ args.batch_size = 0 /\ ~args.shuffle /\ args.sampler = "None"

\* What C11 says of the reorder buffer in one state of a parallel pass.
BufferInOrder(p) ==
    /\ Cardinality(DOMAIN data_buffer[p]) <= it[p].pos - curr_idx[p]
    /\ \A t \in DOMAIN data_buffer[p] : t >= curr_idx[p]
    /\ pc[p] = "drain" => curr_idx[p] \notin DOMAIN data_buffer[p]

\* C11: in every state of a parallel pass the reorder buffer holds at most
\* (Jobs enqueued) - curr_idx entries, each of a ticket >= curr_idx; while the
\* dispatcher waits in data_queue.get() the buffer does not hold curr_idx;
\* curr_idx never decreases; and the buffer is empty once the drain loop has ended.
C11_BufferBoundedOrderedAndEmptied ==
    /\ [](\A p \in Passes :
            Parallel(p) =>
               /\ BufferInOrder(p)
               /\ pc[p] \in {"sentinel", "join", "done"} => DOMAIN data_buffer[p] = {})
    /\ [][\A p \in Passes : curr_idx'[p] >= curr_idx[p]]_vars

\* The number of Jobs, or of Results, of ticket t in queue q.
InQueue(q, t) == Cardinality({k \in 1..Len(q) : q[k].idx = t})

\* The number of live workers of pass p that hold the Job of ticket t.
HeldBy(p, t) ==
    Cardinality({w \in WorkerIds : workers[p][w].pc = "work" /\ workers[p][w].idx = t})

\* The number of workers of pass p that failed while they held the Job of ticket t.
FailedOn(p, t) ==
    Cardinality({w \in WorkerIds : workers[p][w].pc = "crashed" /\ workers[p][w].idx = t})

\* The number of times ticket t was handed to the consumer in pass p.
YieldedTimes(p, t) == Cardinality({k \in 1..Len(tickets[p]) : tickets[p][k] = t})

\* In how many places ticket t of pass p is: job queue, a worker, result
\* queue, reorder buffer, handed over.
Places(p, t) ==
    InQueue(key_queue[QueueOf(p)], t) + HeldBy(p, t)
      + InQueue(data_queue[QueueOf(p)], t)
      + (IF t \in DOMAIN data_buffer[p] THEN 1 ELSE 0) + YieldedTimes(p, t)

\* Every Job, Result and buffered batch of pass p carries the samples of the
\* index-batch its ticket numbers.
CarriesItsTicket(p) ==
    LET q == QueueOf(p)
        of(t) == SamplesOf(it[p].batches[t + 1])
    IN  /\ \A k \in 1..Len(key_queue[q]) :
              key_queue[q][k].idx # -1 =>
                 SamplesOf(key_queue[q][k].samples) = of(key_queue[q][k].idx)
        /\ \A w \in WorkerIds :
              workers[p][w].pc = "work" =>
                 SamplesOf(workers[p][w].samples) = of(workers[p][w].idx)
        /\ \A k \in 1..Len(data_queue[q]) :
              data_queue[q][k].batch.segment = of(data_queue[q][k].idx)
        /\ \A t \in DOMAIN data_buffer[p] : data_buffer[p][t].batch.data = of(t)

\* C12 as the spec states it: at every moment of a parallel pass each ticket
\* enqueued so far is in exactly one place among job queue, one worker,
\* result queue, reorder buffer and handed over, and what is there carries
\* that ticket's samples: no ticket is duplicated, none is lost.
C12_EveryTicketInExactlyOnePlace ==
    \A p \in Passes :
        Parallel(p) =>
            /\ \A t \in 0..(it[p].pos - 1) : Places(p, t) = 1
            /\ CarriesItsTicket(p)

\* C12, amended: each ticket enqueued so far is in exactly one place among
\* the five, or in none of them because the one worker that held its Job
\* failed on it; no ticket is ever in two places.
C12_NoTicketDuplicatedOrLostButByFailure ==
    \A p \in Passes :
        Parallel(p) =>
            /\ \A t \in 0..(it[p].pos - 1) : Places(p, t) + FailedOn(p, t) = 1
            /\ CarriesItsTicket(p)

\* With two workers, four tickets of one pass are in four different places:
\* handed over, in the reorder buffer, in the result queue and with a worker.
C12_Witness ==
    \E p \in Passes :
        /\ self._num_workers = MaxWorkers
        /\ Len(tickets[p]) > 0
        /\ DOMAIN data_buffer[p] # {}
        /\ data_queue[QueueOf(p)] # <<>>
        /\ \E w \in WorkerIds : workers[p][w].pc = "work"

\* A Job that is not a sentinel waits in the job queue of pass p or is with a
\* live worker of the pass.
RealJobPending(p) ==
    \/ \E k \in 1..Len(key_queue[QueueOf(p)]) : key_queue[QueueOf(p)][k].idx # -1
    \/ \E w \in WorkerIds : workers[p][w].pc = "work"

\* The sentinels of pass p: those still in the job queue and those a worker took.
SentinelsPut(p) == SentinelsIn(key_queue[QueueOf(p)]) + Cardinality(Exited(p))

\* What C13 says of one state of a parallel pass.
SentinelsComeLast(p) ==
    /\ SentinelsPut(p) > 0 => ~RealJobPending(p)
    /\ pc[p] \in {"enqueue", "drain", "yielded"} => SentinelsPut(p) = 0
    /\ pc[p] = "sentinel" => SentinelsPut(p) = loop[p]
    /\ pc[p] \in {"join", "done"} => SentinelsPut(p) = self._num_workers
    /\ Exited(p) = WorkersOf(self._num_workers) => key_queue[QueueOf(p)] = <<>>

\* C13: a sentinel is in the job queue or was taken only when no real Job is
\* in the job queue or with a worker, so no worker exits before the drain loop
\* has taken all its Results; a worker that took a sentinel does nothing more
\* (no get, no put), so the sentinels taken are one per exited worker, and the
\* job queue is empty once all the workers have exited.
C13_SentinelsAfterAllJobs ==
    /\ [](\A p \in Passes : Parallel(p) => SentinelsComeLast(p))
    /\ [][\A p \in Passes : \A w \in WorkerIds :
             workers[p][w].pc = "exited" =>
                /\ workers'[p][w] = workers[p][w]
                /\ Exited(p) = WorkersOf(self._num_workers) =>
                      /\ key_queue'[QueueOf(p)] = key_queue[QueueOf(p)]
                      /\ data_queue'[QueueOf(p)] = data_queue[QueueOf(p)]]_vars

\* The generator of pass p is suspended at the yield of line 204: a batch is
\* in the consumer's hands.
AtYield(p) == Parallel(p) /\ pc[p] = "yielded"

\* C14 as the spec states it: whenever a batch of a parallel pass is handed to
\* the consumer, the last one included, no sentinel has been enqueued and all
\* N workers of the pass are alive; the generator leaves its yield only when
\* the consumer asks again, so a pass the consumer stopped asking for, also
\* after exactly len(loader) batches, stays there with all N workers alive.
C14_AllWorkersAliveAtEveryYield ==
    \A p \in Passes :
        /\ AtYield(p) =>
              /\ SentinelsPut(p) = 0
              /\ \A w \in WorkersOf(self._num_workers) : Alive(workers[p][w])
        /\ abandoned[p] /\ Parallel(p) => pc[p] = "yielded"

\* C14, amended: whenever a batch of a parallel pass is handed to the
\* consumer, the last one included, no sentinel has been enqueued and no
\* worker has exited: every worker of the pass is alive, or was ended by a
\* failure of its fetch or collate; when the batch handed over is the
\* len(loader)-th, all N workers are alive; and a pass the consumer stopped
\* asking for stays at its yield.
C14_NoWorkerToldToExitAtAnyYield ==
    \A p \in Passes :
        /\ AtYield(p) =>
              /\ SentinelsPut(p) = 0
              /\ \A w \in WorkersOf(self._num_workers) :
                    Alive(workers[p][w]) \/ workers[p][w].pc = "crashed"
        /\ AtYield(p) /\ Len(out[p]) = length[p] =>
              \A w \in WorkersOf(self._num_workers) : Alive(workers[p][w])
        /\ abandoned[p] /\ Parallel(p) => pc[p] = "yielded"

\* The consumer took the len(loader) batches of a parallel pass of two
\* workers and never asked again: both workers are alive.
C14_Witness ==
    \E p \in Passes :
        /\ AtYield(p) /\ abandoned[p]
        /\ self._num_workers = MaxWorkers
        /\ length[p] >= 2 /\ Len(out[p]) = length[p] /\ total[p] = length[p]
        /\ \A w \in WorkersOf(self._num_workers) : Alive(workers[p][w])

\* The batches of pass p that have left their worker, each as the pair of
\* its region and the elements it was published with: the handles in the
\* result queue, the batches in the reorder buffer and those handed over.
PublishedIn(p) ==
    {<<data_queue[QueueOf(p)][k].batch.region, data_queue[QueueOf(p)][k].batch.segment>> :
        k \in 1..Len(data_queue[QueueOf(p)])}
    \cup {<<data_buffer[p][t].batch.region, data_buffer[p][t].batch.data>> :
            t \in DOMAIN data_buffer[p]}
    \cup {<<out[p][k].region, out[p][k].data>> : k \in 1..Len(out[p])}

PublishedCount(p) ==
    Len(data_queue[QueueOf(p)]) + Cardinality(DOMAIN data_buffer[p]) + Len(out[p])

\* C15: a region of shared memory is written only by the collate of the one
\* Job it was allocated for: every batch that has left its worker lies in a
\* region of its own, which holds the elements the batch was published with,
\* and no step changes a region that exists (none is written again or given
\* to a later Job).
C15_PublishedRegionNeverWritten ==
    /\ [](\A p \in Passes :
            Parallel(p) =>
               /\ \A b \in PublishedIn(p) :
                     b[1] \in DOMAIN shm[p] /\ shm[p][b[1]] = b[2]
               /\ Cardinality({b[1] : b \in PublishedIn(p)}) = PublishedCount(p)
               /\ Cardinality(DOMAIN shm[p]) = PublishedCount(p))
    /\ [][\A p \in Passes : \A r \in DOMAIN shm[p] :
             r \in DOMAIN shm'[p] /\ shm'[p][r] = shm[p][r]]_vars

\* The consumer holds the first batch of a pass of two workers while the
\* workers have written the regions of two later batches.
C15_Witness ==
    \E p \in Passes :
        /\ AtYield(p)
        /\ self._num_workers = MaxWorkers
        /\ Len(out[p]) = 1
        /\ out[p][1].region \in DOMAIN shm[p]
        /\ Cardinality(DOMAIN shm[p]) >= 3

\* A sample without the memory that holds it: the shape and the elements of
\* a tensor (a scalar has the empty shape), the fields of a tuple.
RECURSIVE Plain(_)
Plain(x) ==
    IF IsTuple(x) THEN [fields |-> [j \in 1..Len(x.tuple) |-> Plain(x.tuple[j])]]
    ELSE IF IsNDArray(x) THEN [fields |-> <<>>, shape |-> x.shape, data |-> x.data]
    ELSE [fields |-> <<>>, shape |-> <<>>, data |-> <<x.scalar>>]

\* The i-th of the m slices of a batch along the first axis of its tensors.
RECURSIVE SliceOf(_, _, _)
SliceOf(b, i, m) ==
    IF "list" \in DOMAIN b
    THEN [fields |-> [j \in 1..Len(b.list) |-> SliceOf(b.list[j], i, m)]]
    ELSE LET size == Len(b.data) \div m
         IN  [fields |-> <<>>, shape |-> Tail(b.shape),
              data |-> SubSeq(b.data, (i - 1) * size + 1, i * size)]

\* Every tensor of batch b has m as its first dimension.
RECURSIVE LeadingDimension(_, _)
LeadingDimension(b, m) ==
    IF "list" \in DOMAIN b
    THEN \A j \in 1..Len(b.list) : LeadingDimension(b.list[j], m)
    ELSE b.shape # <<>> /\ b.shape[1] = m /\ Len(b.data) % m = 0

\* Batch b has the structure of the samples of data, and its i-th slice is
\* the i-th sample.
PreservesStructure(b, data) ==
    /\ LeadingDimension(b, Len(data))
    /\ \A i \in 1..Len(data) : SliceOf(b, i, Len(data)) = Plain(data[i])

\* A batch without the memory that holds it.
RECURSIVE ValuesOf(_)
ValuesOf(b) ==
    IF "list" \in DOMAIN b
    THEN [fields |-> [j \in 1..Len(b.list) |-> ValuesOf(b.list[j])]]
    ELSE [fields |-> <<>>, shape |-> b.shape, data |-> b.data]

\* C16: what default_batchify_fn and default_mp_batchify_fn return for a
\* non-empty list of m samples has the structure of the samples (k fields in
\* their order for k-tuples, field by field and recursively; one tensor of
\* shape [m] + s for tensors of shape s), its i-th slice is the i-th sample,
\* and the two functions return the same values.
C16_CollatePreservesStructure ==
    /\ collated # NoBatch => PreservesStructure(collated, given)
    /\ collated_mp # NoBatch => PreservesStructure(collated_mp, given)
    /\ collated # NoBatch /\ collated_mp # NoBatch =>
          ValuesOf(collated) = ValuesOf(collated_mp)

\* Both functions were called on MaxBatchSize different tuples that hold a tuple.
C16_Witness ==
    /\ collated # NoBatch /\ collated_mp # NoBatch
    /\ Len(given) = MaxBatchSize
    /\ given \in ListsOf(NestedSamples)
    /\ given[1] # given[2]

\* The index-batches whose samples pass p has fetched: those it took from
\* the batch sampler.
FetchedBy(p) == it[p].pos

\* C17: a pass of a loader with num_workers = 0 spawns no worker and uses no
\* queue, no reorder buffer and no shared memory, and it fetches nothing
\* ahead of the consumer: the index-batches it has fetched are those of the
\* batches it has handed over (and the one whose fetch or collate raised),
\* also when the consumer stops asking.
C17_SynchronousPassIsLazy ==
    \A p \in Passes :
        pc[p] # "none" /\ self._num_workers = 0 =>
            /\ pc[p] \in {"sync", "done", "raised"}
            /\ \A w \in WorkerIds : workers[p][w] = NoWorker
            /\ key_queue[QueueOf(p)] = <<>> /\ data_queue[QueueOf(p)] = <<>>
            /\ DOMAIN data_buffer[p] = {} /\ DOMAIN shm[p] = {}
            /\ FetchedBy(p) = Len(out[p]) + (IF pc[p] = "raised" THEN 1 ELSE 0)
            /\ \A k \in 1..Len(out[p]) : out[p][k].ctx = "cpu"

\* The consumer stopped after two batches of a synchronous pass that has
\* more: the rest was never fetched.
C17_Witness ==
    \E p \in Passes :
        /\ pc[p] = "sync" /\ abandoned[p]
        /\ self._num_workers = 0
        /\ Len(out[p]) = 2
        /\ FetchedBy(p) < Len(it[p].batches)

====
